---- MODULE Spec2Model ----
(***************************************************************************)
(* Export driver of machine-learning/export/immich_model_exporter/run.py:  *)
(* a for loop over the list `models`; each iteration prints a progress     *)
(* line and runs subprocess.check_call(["python","export.py",model,        *)
(* "openclip"]) inside try, and prints a failure line in                   *)
(* `except Exception as e`.                                                *)
(*                                                                         *)
(* Two specifications share the actions of the loop:                       *)
(*   Spec    the console accepts every write (print never raises);         *)
(*   SpecIO  a write to the console may raise (print raises an OSError).   *)
(* LiveSpec adds to Spec the fairness of a single thread that runs to      *)
(* completion and of external processes that finish.                       *)
(***************************************************************************)
EXTENDS Integers, Sequences, FiniteSets, TLC

\* ------------------------------------------------------------------ bounds
MaxLen == 3   \* longest active list explored
MaxRet == 2   \* largest exit status of the exporter explored

\* ------------------------------------------------------- program constants
\* identifiers of the list literal (two enabled ones, one commented out)
Catalog == {"ViT-SO400M-14-SigLIP2__webli",
            "ViT-SO400M-14-SigLIP2-378__webli",
            "ViT-B-32__openai"}

\* exit statuses the exporter process can return
RetCodes == 0..MaxRet

\* all active lists: what is left of the literal after (un)commenting
RECURSIVE SeqsUpTo(_)
SeqsUpTo(n) ==
  IF n = 0 THEN {<<>>}
  ELSE LET shorter == SeqsUpTo(n - 1)
       IN shorter \cup {Append(s, m) : s \in {t \in shorter : Len(t) = n - 1},
                                       m \in Catalog}
ModelLists == SeqsUpTo(MaxLen)

VARIABLES
  models,      \* the module-level list `models`
  i,           \* number of entries the for-iterator has handed out
  model,       \* the loop variable `model`
  pc,          \* position of the interpreter in the __main__ block
  e,           \* the exception bound by `except Exception as e`
  calls,       \* argv of every subprocess.check_call issued, in order
  running,     \* child processes spawned and not yet reaped
  log,         \* lines written to standard output, in order
  outcomes,    \* history: how the try block of each entry ended
  exitStatus   \* <<>> while the interpreter runs, <<status>> once it exited

vars == <<models, i, model, pc, e, calls, running, log, outcomes, exitStatus>>

NoModel == "<unbound>"
NoExc == [exc |-> "none"]

\* the argument vector of line 69
Argv_WrongMode(m) == <<"python", "export.py", m, "mclip">>
Argv(m) == <<"python", "export.py", m, "openclip">>

\* the f-string of line 68
ProgressLine_NoFPrefix(m) == [kind |-> "progress", model |-> "{model}"]
ProgressLine(m) == [kind |-> "progress", model |-> m]

\* the f-string of line 71
FailureLine(m, exc) == [kind |-> "failure", model |-> m, detail |-> exc]

\* exceptions raised in the try block
CalledProcessError(cmd, rc) ==
  [exc |-> "CalledProcessError", cmd |-> cmd, returncode |-> rc]
LaunchError(cmd) == [exc |-> "OSError", filename |-> cmd[1]]
ConsoleError == [exc |-> "OSError", filename |-> "<stdout>"]

Init ==
  /\ models \in ModelLists
  /\ i = 0
  /\ model = NoModel
  /\ pc = "for"
  /\ e = NoExc
  /\ calls = <<>>
  /\ running = <<>>
  /\ log = <<>>
  /\ outcomes = <<>>
  /\ exitStatus = <<>>

\* for model in models: the iterator yields the next entry
ForNext_Pop ==
  /\ pc = "for"
  /\ i < Len(models)
  /\ model' = Head(models)
  /\ models' = Tail(models)
  /\ pc' = "print"
  /\ UNCHANGED <<i, e, calls, running, log, outcomes, exitStatus>>
ForNext ==
  /\ pc = "for"
  /\ i < Len(models)
  /\ i' = i + 1
  /\ model' = models[i + 1]
  /\ pc' = "print"
  /\ UNCHANGED <<models, e, calls, running, log, outcomes, exitStatus>>

\* for model in models: the iterator is exhausted, the script ends
ForExhausted ==
  /\ pc = "for"
  /\ i >= Len(models)
  /\ pc' = "done"
  /\ exitStatus' = <<0>>
  /\ UNCHANGED <<models, i, model, e, calls, running, log, outcomes>>

\* print(f"Exporting model {model}")
PrintProgress ==
  /\ pc = "print"
  /\ log' = Append(log, ProgressLine(model))
  /\ pc' = "spawn"
  /\ UNCHANGED <<models, i, model, e, calls, running, outcomes, exitStatus>>

\* print of line 68 raises: control moves to the except clause
PrintProgressRaises_Uncaught ==
  /\ pc = "print"
  /\ pc' = "crashed"
  /\ exitStatus' = <<1>>
  /\ UNCHANGED <<models, i, model, e, calls, running, log, outcomes>>
PrintProgressRaises ==
  /\ pc = "print"
  /\ e' = ConsoleError
  /\ outcomes' = Append(outcomes, "printfail")
  /\ pc' = "except"
  /\ UNCHANGED <<models, i, model, calls, running, log, exitStatus>>

\* subprocess.check_call: the child process is started, the call blocks
Launch_NoWait ==
  /\ pc = "spawn"
  /\ calls' = Append(calls, Argv(model))
  /\ running' = Append(running, Len(calls) + 1)
  /\ outcomes' = Append(outcomes, "ok")
  /\ pc' = "for"
  /\ UNCHANGED <<models, i, model, e, log, exitStatus>>
Launch ==
  /\ pc = "spawn"
  /\ calls' = Append(calls, Argv(model))
  /\ running' = Append(running, Len(calls) + 1)
  /\ pc' = "wait"
  /\ UNCHANGED <<models, i, model, e, log, outcomes, exitStatus>>

\* subprocess.check_call: the child process cannot be started
LaunchFails_Uncaught ==
  /\ pc = "spawn"
  /\ calls' = Append(calls, Argv(model))
  /\ outcomes' = Append(outcomes, "launchfail")
  /\ pc' = "crashed"
  /\ exitStatus' = <<1>>
  /\ UNCHANGED <<models, i, model, e, running, log>>
LaunchFails ==
  /\ pc = "spawn"
  /\ calls' = Append(calls, Argv(model))
  /\ e' = LaunchError(Argv(model))
  /\ outcomes' = Append(outcomes, "launchfail")
  /\ pc' = "except"
  /\ UNCHANGED <<models, i, model, running, log, exitStatus>>

\* subprocess.check_call: the child exited with status 0, the call returns
WaitReturns ==
  /\ pc = "wait"
  /\ running # <<>>
  /\ running' = <<>>
  /\ outcomes' = Append(outcomes, "ok")
  /\ pc' = "for"
  /\ UNCHANGED <<models, i, model, e, calls, log, exitStatus>>

\* subprocess.check_call: the child exited with status rc # 0, the call
\* raises CalledProcessError, caught by the except clause
WaitRaises_Propagate(rc) ==
  /\ pc = "wait"
  /\ running # <<>>
  /\ rc # 0
  /\ running' = <<>>
  /\ outcomes' = Append(outcomes, "nonzero")
  /\ pc' = "crashed"
  /\ exitStatus' = <<rc>>
  /\ UNCHANGED <<models, i, model, e, calls, log>>
WaitRaises(rc) ==
  /\ pc = "wait"
  /\ running # <<>>
  /\ rc # 0
  /\ running' = <<>>
  /\ e' = CalledProcessError(calls[Len(calls)], rc)
  /\ outcomes' = Append(outcomes, "nonzero")
  /\ pc' = "except"
  /\ UNCHANGED <<models, i, model, calls, log, exitStatus>>

\* print(f"Failed to export model {model}: {e}")
PrintFailure_Silent ==
  /\ pc = "except"
  /\ e' = NoExc
  /\ pc' = "for"
  /\ UNCHANGED <<models, i, model, calls, running, log, outcomes, exitStatus>>
PrintFailure_Break ==
  /\ pc = "except"
  /\ log' = Append(log, FailureLine(model, e))
  /\ e' = NoExc
  /\ pc' = "done"
  /\ exitStatus' = <<0>>
  /\ UNCHANGED <<models, i, model, calls, running, outcomes>>
PrintFailure_Retry ==
  /\ pc = "except"
  /\ log' = Append(log, FailureLine(model, e))
  /\ e' = NoExc
  /\ i' = i - 1
  /\ pc' = "for"
  /\ UNCHANGED <<models, model, calls, running, outcomes, exitStatus>>
PrintFailure ==
  /\ pc = "except"
  /\ log' = Append(log, FailureLine(model, e))
  /\ e' = NoExc
  /\ pc' = "for"
  /\ UNCHANGED <<models, i, model, calls, running, outcomes, exitStatus>>

\* print of line 71 raises: nothing encloses it, the interpreter exits
PrintFailureRaises ==
  /\ pc = "except"
  /\ pc' = "crashed"
  /\ exitStatus' = <<1>>
  /\ UNCHANGED <<models, i, model, e, calls, running, log, outcomes>>

\* steps of the interpreter itself
DriverStep ==
  \/ ForNext
  \/ ForExhausted
  \/ PrintProgress
  \/ Launch
  \/ LaunchFails
  \/ PrintFailure

\* the outstanding child process exits
ProcessFinishes ==
  \/ WaitReturns
  \/ \E rc \in RetCodes : WaitRaises(rc)

Next ==
  \/ ForNext
  \/ ForExhausted
  \/ PrintProgress
  \/ Launch
  \/ LaunchFails
  \/ WaitReturns
  \/ \E rc \in RetCodes : WaitRaises(rc)
  \/ PrintFailure

NextIO ==
  \/ ForNext
  \/ ForExhausted
  \/ PrintProgress
  \/ PrintProgressRaises
  \/ Launch
  \/ LaunchFails
  \/ WaitReturns
  \/ \E rc \in RetCodes : WaitRaises(rc)
  \/ PrintFailure
  \/ PrintFailureRaises

Spec == Init /\ [][Next]_vars
SpecIO == Init /\ [][NextIO]_vars
LiveSpec == Init /\ [][Next]_vars /\ WF_vars(DriverStep) /\ WF_vars(ProcessFinishes)

\* ------------------------------------------------------------ claim helpers
Range(s) == {s[k] : k \in DOMAIN s}
IsFailure(o) == o # "ok"
NumFailed == Cardinality({k \in DOMAIN outcomes : IsFailure(outcomes[k])})
FailureLines == SelectSeq(log, LAMBDA l : l.kind = "failure")
ProgressLines == SelectSeq(log, LAMBDA l : l.kind = "progress")
FailureNames == [k \in 1..Len(FailureLines) |-> FailureLines[k].model]
LogView == [k \in 1..Len(log) |-> <<log[k].kind, log[k].model>>]
LogKinds == [k \in 1..Len(log) |-> log[k].kind]

\* which entries failed, the two kinds of invocation failure made one
FailedFlags ==
  [k \in 1..Len(outcomes) |-> outcomes[k] \in {"nonzero", "launchfail"}]

\* entries whose progress print succeeded
AttemptedEntries == {k \in DOMAIN outcomes : outcomes[k] # "printfail"}

\* identifiers of the entries 1..k whose try block ended in the except clause
RECURSIVE FailedModels(_)
FailedModels(k) ==
  IF k = 0 THEN <<>>
  ELSE FailedModels(k - 1)
         \o (IF IsFailure(outcomes[k]) THEN <<models[k]>> ELSE <<>>)

\* the console output the entries 1..k are expected to have produced
RECURSIVE ExpectedLog(_)
ExpectedLog(k) ==
  IF k = 0 THEN <<>>
  ELSE ExpectedLog(k - 1)
         \o <<(<<"progress", models[k]>>)>>
         \o (IF IsFailure(outcomes[k]) THEN <<(<<"failure", models[k]>>)>> ELSE <<>>)

\* the line kinds determined by which entries failed, whatever the failure
RECURSIVE ExpectedKinds(_, _)
ExpectedKinds(failed, k) ==
  IF k = 0 THEN <<>>
  ELSE ExpectedKinds(failed, k - 1)
         \o <<"progress">> \o (IF failed[k] THEN <<"failure">> ELSE <<>>)

C4_OneProcessAtATime ==
  /\ [](Len(running) <= 1 /\ (running # <<>> => pc = "wait"))
  /\ [][running # <<>> =>
          /\ running' = <<>>
          /\ log' = log
          /\ calls' = calls
          /\ i' = i]_vars
  /\ [][Len(calls') > Len(calls) => running = <<>>]_vars

C4_Witness ==
  /\ pc = "wait"
  /\ Len(running) = 1
  /\ Len(calls) = 2

C8_OnlyActiveEntries ==
  /\ [](\A k \in DOMAIN calls : calls[k][3] \in Range(models))
  /\ [](\A k \in DOMAIN log : log[k].model \in Range(models))
  /\ [](\A m \in Catalog \ Range(models) :
          /\ \A k \in DOMAIN calls : calls[k][3] # m
          /\ \A k \in DOMAIN log : log[k].model # m)
  /\ [](models = <<>> => (calls = <<>> /\ log = <<>>))
  /\ [][models' = models]_vars

C8_Witness ==
  /\ pc = "done"
  /\ Len(models) = 2
  /\ Catalog \ Range(models) # {}
  /\ Len(calls) = 2
  /\ Len(FailureLines) = 1

C10_ProgressPrintContained ==
     /\ [](Len(calls) = Cardinality(AttemptedEntries) + (IF pc = "wait" THEN 1 ELSE 0))
     /\ [][pc = "print" => pc' \in {"spawn", "except"}]_vars
     /\ [][(pc = "print" /\ pc' = "except") =>
             /\ calls' = calls
             /\ running' = running
             /\ log' = log
             /\ i' = i]_vars
     /\ [][pc = "except" =>
             \/ /\ pc' = "for"
                /\ i' = i
                /\ Len(log') = Len(log) + 1
                /\ log'[Len(log')].kind = "failure"
                /\ log'[Len(log')].model = models[i]
             \/ /\ pc' = "crashed"
                /\ log' = log
                /\ exitStatus' # <<0>>]_vars
     /\ [](pc \in {"for", "done"} => FailureNames = FailedModels(Len(outcomes)))

C10_Witness ==
  /\ pc = "done"
  /\ Len(models) = 2
  /\ calls = <<>>
  /\ outcomes = <<"printfail", "printfail">>
  /\ Len(FailureLines) = 2
====
